---------------------------- MODULE Spec2Model ----------------------------
(***************************************************************************)
(* Model of the two batch scripts of the repository.                       *)
(*                                                                         *)
(*   Pipeline A  (src/unnamed/part_000): TitanicMerger.merge_files         *)
(*   Pipeline B  (src/quiz2/gendercsv.py): load_long_form_dataframe,       *)
(*               aggregate_general_households, save_csv, plot_gender_age,  *)
(*               build_report, main                                        *)
(*                                                                         *)
(* The Korean string literals of the source are written in ASCII,          *)
(* romanised:                                                              *)
(*   "gye"    the total gender            "namja"  male                    *)
(*   "yeoja"  female                      "hapgye" the grand-total bucket  *)
(*   "15~64", "65+"  the two summary buckets (15~64-se, 65-se-isang)       *)
(*   "20~24", "25~29"  ordinary buckets   "ilban"  the indicator           *)
(*                                        (ilban-gaguwon), "chong" another *)
(* A missing value (NaN / pd.NA) in a label column is the marker NA; a     *)
(* numeric cell that may be missing is <<>> (missing) or <<n>>.            *)
(***************************************************************************)
EXTENDS Integers, Sequences, FiniteSets, TLC

VARIABLES
    \* ---- pipeline A: TitanicMerger.merge_files
    train_file,     \* rows csv.reader yields for self.train_path
    test_file,      \* rows csv.reader yields for self.test_path
    out_file,       \* rows written to self.output_path
    first_file,     \* the local flag of merge_files
    file_no,        \* position of the for loop over [train_path, test_path]
    reader_pos,     \* index of the next row the current reader yields
    mpc,            \* control state of merge_files
    \* ---- pipeline B: gendercsv.py
    df_raw,         \* the wide table read_csv returns (columns 3.. and all rows)
    long_df,        \* load_long_form_dataframe's result
    gender_year,    \* aggregate_general_households' three results
    age_totals,
    gender_age,
    age_order,      \* the categories of the two tables' age column
    files,          \* the output files written so far, in the order written
    report_text,    \* build_report's result
    pc,             \* the statement of main that runs next
    raised          \* whether the statement at pc raised (the run is over)

mvars == <<train_file, test_file, out_file, first_file, file_no, reader_pos, mpc>>
tables == <<gender_year, age_totals, gender_age, age_order>>
bvars == <<df_raw, long_df, tables, files, report_text, pc, raised>>
vars == <<mvars, bvars>>

(***************************************************************************)
(* Generic helpers on sequences.                                           *)
(***************************************************************************)
RECURSIVE SeqsUpTo(_, _)
SeqsUpTo(S, n) ==
    IF n = 0 THEN {<<>>}
    ELSE LET shorter == SeqsUpTo(S, n - 1)
         IN  shorter \cup {Append(s, x) : s \in {t \in shorter : Len(t) = n - 1}, x \in S}

RECURSIVE SelectSeqBy(_, _)
\* s restricted to the elements whose index satisfies keep (a boolean sequence)
SelectSeqBy(s, keep) ==
    IF s = <<>> THEN <<>>
    ELSE (IF Head(keep) THEN <<Head(s)>> ELSE <<>>) \o SelectSeqBy(Tail(s), Tail(keep))

Range(s) == {s[i] : i \in 1..Len(s)}

RECURSIVE SumSeq(_)
SumSeq(s) == IF s = <<>> THEN 0 ELSE Head(s) + SumSeq(Tail(s))

RECURSIVE Concat(_)
Concat(ss) == IF ss = <<>> THEN <<>> ELSE Head(ss) \o Concat(Tail(ss))

(***************************************************************************)
(* Pipeline A: TitanicMerger.merge_files.                                  *)
(***************************************************************************)
MaxMergeRows == 2

MergeHeaders == {<<"PassengerId", "Age">>, <<"Id", "Age">>}
MergeRows == {<<"0001", "39">>, <<>>}

\* a CSV file as the rows csv.reader yields: empty, or a header and data rows
MergeFiles ==
    {<<>>} \cup {<<h>> \o rows : h \in MergeHeaders,
                                rows \in SeqsUpTo(MergeRows, MaxMergeRows)}

InputFile(n) == IF n = 1 THEN train_file ELSE test_file

BIdle ==
    /\ df_raw = [columns |-> <<>>, body |-> <<>>]
    /\ long_df = <<>>
    /\ gender_year = <<>>
    /\ age_totals = <<>>
    /\ gender_age = <<>>
    /\ age_order = <<>>
    /\ files = <<>>
    /\ report_text = [kind |-> "none"]
    /\ pc = "idle"
    /\ raised = FALSE

MIdle ==
    /\ train_file = <<>>
    /\ test_file = <<>>
    /\ out_file = <<>>
    /\ first_file = TRUE
    /\ file_no = 0
    /\ reader_pos = 0
    /\ mpc = "idle"

InitMerge ==
    /\ train_file \in MergeFiles
    /\ test_file \in MergeFiles
    /\ out_file \in {<<>>, <<<<"stale">>>>}   \* data.csv may exist already
    /\ first_file = TRUE
    /\ file_no = 0
    /\ reader_pos = 0
    /\ mpc = "start"
    /\ BIdle

\* lines 18-20: open(output_path, 'w') truncates; first_file = True
OpenOutput ==
    /\ mpc = "start"
    /\ out_file' = <<>>
    /\ first_file' = TRUE
    /\ file_no' = 1
    /\ mpc' = "open"
    /\ UNCHANGED <<train_file, test_file, reader_pos, bvars>>

\* lines 27-29: the header is written for the first file only
MutWriteHeader(out, first, header) == Append(out, header)

WriteHeader(out, first, header) == IF first THEN Append(out, header) ELSE out

\* lines 22-29: open the next input, header = next(reader)
OpenInput ==
    /\ mpc = "open"
    /\ IF InputFile(file_no) = <<>>
       THEN \* next(reader) raises StopIteration, which propagates
            /\ mpc' = "error"
            /\ UNCHANGED <<out_file, first_file, reader_pos>>
       ELSE /\ out_file' = WriteHeader(out_file, first_file, Head(InputFile(file_no)))
            /\ first_file' = FALSE
            /\ reader_pos' = 2
            /\ mpc' = "rows"
    /\ UNCHANGED <<train_file, test_file, file_no, bvars>>

\* lines 31-32: for row in reader: writer.writerow(row)
CopyRow ==
    /\ mpc = "rows"
    /\ reader_pos <= Len(InputFile(file_no))
    /\ out_file' = Append(out_file, InputFile(file_no)[reader_pos])
    /\ reader_pos' = reader_pos + 1
    /\ UNCHANGED <<train_file, test_file, first_file, file_no, mpc, bvars>>

\* the reader is exhausted: the inner with block ends, the for loop goes on
CloseInput ==
    /\ mpc = "rows"
    /\ reader_pos > Len(InputFile(file_no))
    /\ file_no' = file_no + 1
    /\ mpc' = IF file_no = 2 THEN "done" ELSE "open"
    /\ UNCHANGED <<train_file, test_file, out_file, first_file, reader_pos, bvars>>

NextMerge == OpenOutput \/ OpenInput \/ CopyRow \/ CloseInput

SpecMerge == InitMerge /\ [][NextMerge]_vars

\* C1: for two inputs that each have a header row, merge_files returns (it
\* raises only for an input without one) and the output then holds file 1's
\* header, all R1 data rows of file 1 in order and all R2 data rows of file
\* 2 in order, 1 + R1 + R2 rows; file 2's header is not written, equal to
\* file 1's or not.
C1_MergeOutput ==
    /\ mpc = "done" =>
          /\ out_file = <<Head(train_file)>> \o Tail(train_file) \o Tail(test_file)
          /\ Len(out_file) = 1 + (Len(train_file) - 1) + (Len(test_file) - 1)
    /\ mpc = "error" => (train_file = <<>> \/ test_file = <<>>)

C1_Witness ==
    /\ mpc = "done"
    /\ Len(train_file) = 3
    /\ Len(test_file) = 3
    /\ Head(train_file) # Head(test_file)
    /\ train_file[2] # train_file[3]


(***************************************************************************)
(* Pipeline B, constants of gendercsv.py.                                  *)
(***************************************************************************)
NA == "NaN"                     \* a missing label (read_csv never yields the text)
CutoffYear == 2015              \* line 66: the year column >= 2015
Indicator == "ilban"            \* line 65: the indicator literal
TotalGender == "gye"            \* lines 68, 82: the total-gender literal
NamedGenders == {"namja", "yeoja"}          \* lines 75, 92
GrandTotal == "hapgye"          \* line 75: the grand-total literal
SeniorBucket == "65+"           \* line 165: the senior bucket literal
ExcludedGroups == {"hapgye", "15~64", "65+"}   \* lines 120, 161, 175, 184
Apology == "apology"            \* line 150: the fixed string
\* the five output paths, lines 11-15
OUTPUT_YEAR_GENDER_CSV == "general_households_by_gender_year.csv"
OUTPUT_AGE_CSV == "general_households_by_age.csv"
OUTPUT_GENDER_AGE_CSV == "general_households_by_gender_age.csv"
OUTPUT_FIGURE == "gender_age_line.png"
OUTPUT_REPORT == "general_household_trend_report.txt"

\* Python's str order (code points) on the labels of the model:
\* digits sort before Hangul, and gye < namja < yeoja < hapgye (U+ACC4 <
\* U+B0A8 < U+C5EC < U+D569)
StrRank(s) ==
    CASE s = "15~64" -> 1
      [] s = "20~24" -> 2
      [] s = "25~29" -> 3
      [] s = "65+" -> 4
      [] s = "gye" -> 5
      [] s = "namja" -> 6
      [] s = "yeoja" -> 7
      [] s = "hapgye" -> 8

\* lexicographic order on tuples of integers of one length
RECURSIVE LexLess(_, _)
LexLess(a, b) ==
    /\ a # <<>>
    /\ \/ Head(a) < Head(b)
       \/ Head(a) = Head(b) /\ LexLess(Tail(a), Tail(b))

\* stable insertion of the keyed element x = <<key, row>> into the sorted
\* sequence s: after every element whose key is not greater
RECURSIVE InsertSorted(_, _)
InsertSorted(s, x) ==
    IF s = <<>> THEN <<x>>
    ELSE IF LexLess(x[1], Head(s)[1])
         THEN <<x>> \o s
         ELSE <<Head(s)>> \o InsertSorted(Tail(s), x)

RECURSIVE SortKeyed(_)
SortKeyed(s) ==
    IF s = <<>> THEN <<>>
    ELSE InsertSorted(SortKeyed(SubSeq(s, 1, Len(s) - 1)), s[Len(s)])

\* a stable sort by Key (sort_values on several columns is stable)
SortBy(s, Key(_)) ==
    LET sorted == SortKeyed([i \in 1..Len(s) |-> <<Key(s[i]), s[i]>>])
    IN  [i \in 1..Len(s) |-> sorted[i][2]]

\* index of the first occurrence of x in s, or Len(s) + 1
RECURSIVE IndexOf(_, _)
IndexOf(s, x) ==
    IF s = <<>> THEN 1
    ELSE IF Head(s) = x THEN 1 ELSE 1 + IndexOf(Tail(s), x)

\* the mutant goes from the aggregation straight to the report
MutMainNext(step) ==
    CASE step = "load" -> "aggregate"
      [] step = "aggregate" -> "build_report"
      [] step = "build_report" -> "write_report"
      [] step = "write_report" -> "save_year_gender"
      [] step = "save_year_gender" -> "save_age"
      [] step = "save_age" -> "save_gender_age"
      [] step = "save_gender_age" -> "plot"
      [] step = "plot" -> "print"
      [] step = "print" -> "done"

\* main, lines 204-229: the statement that follows a statement
MainNext(step) ==
    CASE step = "load" -> "aggregate"
      [] step = "aggregate" -> "save_year_gender"
      [] step = "save_year_gender" -> "save_age"
      [] step = "save_age" -> "save_gender_age"
      [] step = "save_gender_age" -> "plot"
      [] step = "plot" -> "build_report"
      [] step = "build_report" -> "write_report"
      [] step = "write_report" -> "print"
      [] step = "print" -> "done"

(***************************************************************************)
(* load_long_form_dataframe (lines 18-59).                                 *)
(*                                                                         *)
(* df_raw = [columns, body]: columns are the names of the columns from     *)
(* index 3 on, each as its "."-separated parts ("2015.1" is <<"2015",      *)
(* "1">>); body holds every row of the frame, row 0 (the header row)       *)
(* first; a row is [region, gender, age, cells] with one cell per column.  *)
(***************************************************************************)
\* int(text), for the texts of the model; <<>> stands for ValueError
ParseInt(text) ==
    CASE text = "1" -> <<1>>
      [] text = "2" -> <<2>>
      [] text = "3" -> <<3>>
      [] text = "4" -> <<4>>
      [] text = "5" -> <<5>>
      [] text = "9" -> <<9>>
      [] text = "2014" -> <<2014>>
      [] text = "2015" -> <<2015>>
      [] text = "2016" -> <<2016>>
      [] OTHER -> <<>>

\* line 34: data_rows.replace({"X": pd.NA, "-": pd.NA}), cell by cell
Replace(cell) == IF cell \in {"X", "-"} THEN NA ELSE cell

\* line 40: pd.to_numeric(..., errors="coerce"): a number, or missing
ToNumeric(cell) == IF cell = NA THEN <<>> ELSE ParseInt(cell)

\* line 38: int(column.split(".")[0])
ColumnYear(column) == ParseInt(Head(column))

\* lines 33-34: df_raw.iloc[1:] with the sentinels replaced in every column
DataRows(df) ==
    [i \in 1..(Len(df.body) - 1) |->
        LET r == df.body[i + 1]
        IN  [region |-> Replace(r.region),
             gender |-> Replace(r.gender),
             age |-> Replace(r.age),
             cells |-> [j \in 1..Len(r.cells) |-> Replace(r.cells[j])]]]

\* the mutant reads every frame's values from the first year column
MutColumnFrame(df, j) ==
    LET rows == DataRows(df)
    IN  [i \in 1..Len(rows) |->
            [region |-> rows[i].region,
             gender |-> rows[i].gender,
             age |-> rows[i].age,
             year |-> ColumnYear(df.columns[j])[1],
             metric |-> df.body[1].cells[j],
             value |-> ToNumeric(rows[i].cells[1])]]

\* lines 38-52: the frame of year column j, one row per data row
ColumnFrame(df, j) ==
    LET rows == DataRows(df)
    IN  [i \in 1..Len(rows) |->
            [region |-> rows[i].region,
             gender |-> rows[i].gender,
             age |-> rows[i].age,
             year |-> ColumnYear(df.columns[j])[1],
             metric |-> df.body[1].cells[j],
             value |-> ToNumeric(rows[i].cells[j])]]

\* the mutant keeps the rows whose value is missing, as the value 0
MutDropNa(frame) ==
    [i \in 1..Len(frame) |->
        [frame[i] EXCEPT !.value = IF @ = <<>> THEN 0 ELSE @[1]]]

\* line 56: .dropna on the value column; the kept values are plain numbers
DropNa(frame) ==
    LET kept == SelectSeq(frame, LAMBDA r : r.value # <<>>)
    IN  [i \in 1..Len(kept) |-> [kept[i] EXCEPT !.value = @[1]]]

\* whether the call raises: no row 0 (line 32, IndexError), a column name
\* whose prefix is no integer (line 38, ValueError), no year column at all
\* (line 55, pd.concat of an empty list, ValueError)
LoadRaises(df) ==
    \/ df.body = <<>>
    \/ \E j \in 1..Len(df.columns) : ColumnYear(df.columns[j]) = <<>>
    \/ df.columns = <<>>

\* lines 36-59: the frames of all year columns, concatenated in column order
LoadLongForm(df) ==
    DropNa(Concat([j \in 1..Len(df.columns) |-> ColumnFrame(df, j)]))

\* lines 23-30 raise when the file cannot be read or decoded, or has fewer
\* than three columns (IndexError on df_raw.columns[2]); df_raw is the frame
\* the read yields otherwise
load_long_form_dataframe ==
    /\ pc = "load"
    /\ ~raised
    /\ \E reads \in BOOLEAN :
          IF ~reads \/ LoadRaises(df_raw)
          THEN raised' = TRUE /\ UNCHANGED <<pc, long_df>>
          ELSE /\ pc' = MainNext(pc)
               /\ long_df' = LoadLongForm(df_raw)
               /\ UNCHANGED raised
    /\ UNCHANGED <<df_raw, tables, files, report_text, mvars>>

\* ---- the wide tables of the loader's checks
MaxLoadRows == 2

LoadCells == {"1", "2", "X", "-", "abc"}
\* read_csv renames a repeated column name "2015" to "2015.1", "2015.2", ...
LoadColumns ==
    {<<>>, <<<<"2015">>>>, <<<<"Unnamed: 3">>>>,
     <<<<"2015">>, <<"2015", "1">>>>, <<<<"2015">>, <<"2016">>>>,
     <<<<"2014">>, <<"2015", "1">>>>}
LoadMetrics == {"ilban", "chong"}

WideRow(cells) == [region |-> "r", gender |-> "gye", age |-> "hapgye", cells |-> cells]
CellRows(S, n) == {s \in SeqsUpTo(S, n) : Len(s) = n}

WideTables(columnSets, cells, maxRows) ==
    {[columns |-> c, body |-> b] :
        c \in columnSets,
        b \in {<<>>} \cup
              {<<WideRow(h)>> \o d :
                  h \in CellRows(LoadMetrics, 2),
                  d \in SeqsUpTo({WideRow(x) : x \in CellRows(cells, 2)}, maxRows)}}

\* the table cut to its columns (rows of the set above carry two cells)
CutToColumns(t) ==
    [columns |-> t.columns,
     body |-> [i \in 1..Len(t.body) |->
                  [t.body[i] EXCEPT !.cells = SubSeq(@, 1, Len(t.columns))]]]

InitLoad ==
    /\ df_raw \in {CutToColumns(t) : t \in WideTables(LoadColumns, LoadCells, MaxLoadRows)}
    /\ long_df = <<>>
    /\ gender_year = <<>>
    /\ age_totals = <<>>
    /\ gender_age = <<>>
    /\ age_order = <<>>
    /\ files = <<>>
    /\ report_text = [kind |-> "none"]
    /\ pc = "load"
    /\ raised = FALSE
    /\ MIdle

SpecLoad == InitLoad /\ [][load_long_form_dataframe]_vars

\* ---- what the wide table holds, read off df_raw directly
\* the number a wide cell stands for, <<>> when it stands for none
CellNumber(df, i, j) == ToNumeric(Replace(df.body[i].cells[j]))

\* the (data row, year column) cells that hold a number; row 1 is the header
NumericCells(df) ==
    {<<i, j>> \in (2..Len(df.body)) \X (1..Len(df.columns)) :
        CellNumber(df, i, j) # <<>>}

\* the sum of the numeric cells of year column j, the header row excluded
WideColumnSum(df, j) ==
    SumSeq([i \in 1..(Len(df.body) - 1) |->
               IF CellNumber(df, i + 1, j) = <<>> THEN 0
               ELSE CellNumber(df, i + 1, j)[1]])

\* the sum of the long-form values that carry the given year and metric
LongSum(long, year, metric) ==
    SumSeq([i \in 1..Len(long) |->
               IF long[i].year = year /\ long[i].metric = metric
               THEN long[i].value ELSE 0])

Loaded == pc = "aggregate" /\ ~raised

\* C5 (as amended): the long form holds exactly one row for every (data row,
\* year column) cell whose value is present and numeric after the sentinel
\* replacement and the coercion; the header row 0 contributes none.
C5_RowPerNumericCell ==
    Loaded => Len(long_df) = Cardinality(NumericCells(df_raw))

\* C5 (as claimed): the long form holds (number of data rows with a
\* non-missing, numerically-coercible value) x (number of year columns) rows,
\* reading "a row with a value" as a row numeric in some, or in every, column.
C5_RowsTimesColumns ==
    Loaded =>
        LET n == Len(df_raw.columns)
            some == {i \in 2..Len(df_raw.body) :
                        \E j \in 1..n : <<i, j>> \in NumericCells(df_raw)}
            every == {i \in 2..Len(df_raw.body) :
                        \A j \in 1..n : <<i, j>> \in NumericCells(df_raw)}
        IN  \/ Len(long_df) = Cardinality(some) * n
            \/ Len(long_df) = Cardinality(every) * n

\* a loaded two-column table with a row numeric in one column only and a
\* row numeric in both
C5_Witness ==
    /\ Loaded
    /\ Len(df_raw.columns) = 2
    /\ \E i \in 2..Len(df_raw.body) :
          <<i, 1>> \in NumericCells(df_raw) /\ <<i, 2>> \notin NumericCells(df_raw)
    /\ \E i \in 2..Len(df_raw.body) :
          <<i, 1>> \in NumericCells(df_raw) /\ <<i, 2>> \in NumericCells(df_raw)

\* the year columns that carry the same (year, metric) pair as column j
SamePair(df, j) ==
    {k \in 1..Len(df.columns) :
        /\ ColumnYear(df.columns[k]) = ColumnYear(df.columns[j])
        /\ df.body[1].cells[k] = df.body[1].cells[j]}

\* the sum of the numeric cells of the year columns in cols
RECURSIVE WideColumnsSum(_, _)
WideColumnsSum(df, cols) ==
    IF cols = {} THEN 0
    ELSE LET k == CHOOSE x \in cols : TRUE
         IN  WideColumnSum(df, k) + WideColumnsSum(df, cols \ {k})

\* C6 (as amended): for every year column, the long-form values that carry
\* its (year, metric) pair sum to the numeric cells of all the year columns
\* that carry this pair: of that column alone when no other column shares
\* both its year prefix and its metric name.
C6_SumPerYearMetric ==
    Loaded =>
        \A j \in 1..Len(df_raw.columns) :
            LongSum(long_df, ColumnYear(df_raw.columns[j])[1], df_raw.body[1].cells[j])
                = WideColumnsSum(df_raw, SamePair(df_raw, j))

\* C6 (as claimed): for every year column, the long-form values that carry
\* its (year, metric) pair sum to the numeric cells of that wide column,
\* also when several columns carry the same year prefix.
C6_SumPerColumn ==
    Loaded =>
        \A j \in 1..Len(df_raw.columns) :
            LongSum(long_df, ColumnYear(df_raw.columns[j])[1], df_raw.body[1].cells[j])
                = WideColumnSum(df_raw, j)

\* two columns of one year prefix: once with different metrics (each sums
\* to its own column), and the two columns hold different sums
C6_Witness ==
    /\ Loaded
    /\ Len(df_raw.columns) = 2
    /\ ColumnYear(df_raw.columns[1]) = ColumnYear(df_raw.columns[2])
    /\ df_raw.body[1].cells[1] # df_raw.body[1].cells[2]
    /\ WideColumnSum(df_raw, 1) = 3
    /\ WideColumnSum(df_raw, 2) = 1
    /\ \E i \in 2..Len(df_raw.body) : df_raw.body[i].cells[2] \in {"X", "-", "abc"}


(***************************************************************************)
(* aggregate_general_households (lines 62-101).                            *)
(***************************************************************************)
\* the elements of a set in the order of their integer-tuple keys
RECURSIVE SortKeyedSet(_)
SortKeyedSet(S) ==
    IF S = {} THEN <<>>
    ELSE LET m == CHOOSE x \in S : \A y \in S \ {x} : LexLess(x[1], y[1])
         IN  <<m[2]>> \o SortKeyedSet(S \ {m})

\* s without the later repetitions of its elements (drop_duplicates)
RECURSIVE DropDuplicates(_)
DropDuplicates(s) ==
    IF s = <<>> THEN <<>>
    ELSE LET front == DropDuplicates(SubSeq(s, 1, Len(s) - 1))
         IN  IF s[Len(s)] \in Range(front) THEN front ELSE Append(front, s[Len(s)])

\* the sum of the value column over the rows that satisfy Test
SumWhere(rows, Test(_)) ==
    SumSeq([i \in 1..Len(rows) |-> IF Test(rows[i]) THEN rows[i].value ELSE 0])

\* the mutant forgets the year cutoff
MutFiltered(long) == SelectSeq(long, LAMBDA r : r.metric = Indicator)

\* lines 65-66
Filtered(long) ==
    SelectSeq(long, LAMBDA r : r.metric = Indicator /\ r.year >= CutoffYear)

\* lines 67-71: the buckets of the total-gender rows, first occurrence first
AgeOrder(filtered) ==
    LET total == SelectSeq(filtered, LAMBDA r : r.gender = TotalGender)
    IN  DropDuplicates([i \in 1..Len(total) |-> total[i].age])

\* lines 73-80: groupby drops no key here (year and gender are present),
\* yields the groups in key order, and sort_values keeps that order
GenderYear(filtered) ==
    LET sel == SelectSeq(filtered,
                   LAMBDA r : r.gender \in NamedGenders /\ r.age = GrandTotal)
        keys == {<<r.year, r.gender>> : r \in Range(sel)}
        grouped == SortKeyedSet(
            {<< <<k[1], StrRank(k[2])>>,
                [year |-> k[1], gender |-> k[2],
                 value |-> SumWhere(sel, LAMBDA r : r.year = k[1] /\ r.gender = k[2])] >>
             : k \in keys})
    IN  SortBy(grouped, LAMBDA r : <<r.year, StrRank(r.gender)>>)

\* pd.Categorical(values, categories=order): a value outside the categories
\* becomes missing
Categorical(label, order) == IF label \in Range(order) THEN label ELSE NA

\* the mutant orders the buckets as strings and not by the categories
MutCatCode(label, order) == IF label = NA THEN 9 ELSE StrRank(label)

\* the code of a categorical value: its place in the categories; a missing
\* value sorts last (na_position='last')
CatCode(label, order) == IF label = NA THEN Len(order) + 1 ELSE IndexOf(order, label)

\* lines 81-89: groupby drops the rows whose bucket is missing
AgeTotals(filtered, order) ==
    LET sel == SelectSeq(filtered, LAMBDA r : r.gender = TotalGender /\ r.age # NA)
        keys == {<<r.year, r.age>> : r \in Range(sel)}
        grouped == SortKeyedSet(
            {<< <<k[1], StrRank(k[2])>>,
                [year |-> k[1], age |-> k[2],
                 value |-> SumWhere(sel, LAMBDA r : r.year = k[1] /\ r.age = k[2])] >>
             : k \in keys})
        cat == [i \in 1..Len(grouped) |->
                   [grouped[i] EXCEPT !.age = Categorical(@, order)]]
    IN  SortBy(cat, LAMBDA r : <<r.year, CatCode(r.age, order)>>)

\* the mutant drops the rows whose bucket is no category
MutGenderAge(filtered, order) ==
    LET sel == SelectSeq(filtered,
                   LAMBDA r : r.gender \in NamedGenders /\ r.age \in Range(order))
        keys == {<<r.year, r.gender, r.age>> : r \in Range(sel)}
        grouped == SortKeyedSet(
            {<< <<k[1], StrRank(k[2]), StrRank(k[3])>>,
                [year |-> k[1], gender |-> k[2], age |-> k[3],
                 value |-> SumWhere(sel, LAMBDA r :
                               r.year = k[1] /\ r.gender = k[2] /\ r.age = k[3])] >>
             : k \in keys})
    IN  SortBy(grouped, LAMBDA r : <<r.year, StrRank(r.gender), CatCode(r.age, order)>>)

\* lines 91-99
GenderAge(filtered, order) ==
    LET sel == SelectSeq(filtered, LAMBDA r : r.gender \in NamedGenders /\ r.age # NA)
        keys == {<<r.year, r.gender, r.age>> : r \in Range(sel)}
        grouped == SortKeyedSet(
            {<< <<k[1], StrRank(k[2]), StrRank(k[3])>>,
                [year |-> k[1], gender |-> k[2], age |-> k[3],
                 value |-> SumWhere(sel, LAMBDA r :
                               r.year = k[1] /\ r.gender = k[2] /\ r.age = k[3])] >>
             : k \in keys})
        cat == [i \in 1..Len(grouped) |->
                   [grouped[i] EXCEPT !.age = Categorical(@, order)]]
    IN  SortBy(cat, LAMBDA r : <<r.year, StrRank(r.gender), CatCode(r.age, order)>>)

\* line 86: pd.Categorical raises ValueError when a category is missing,
\* which is when a total-gender row of the filtered frame has no bucket
AggregateRaises(long) == NA \in Range(AgeOrder(Filtered(long)))

aggregate_general_households ==
    /\ pc = "aggregate"
    /\ ~raised
    /\ IF AggregateRaises(long_df)
       THEN raised' = TRUE /\ UNCHANGED <<pc, tables>>
       ELSE /\ pc' = MainNext(pc)
            /\ UNCHANGED raised
            /\ age_order' = AgeOrder(Filtered(long_df))
            /\ gender_year' = GenderYear(Filtered(long_df))
            /\ age_totals' = AgeTotals(Filtered(long_df), AgeOrder(Filtered(long_df)))
            /\ gender_age' = GenderAge(Filtered(long_df), AgeOrder(Filtered(long_df)))
    /\ UNCHANGED <<df_raw, long_df, files, report_text, mvars>>

\* ---- the long forms of the aggregator's checks
MaxLongRows == 4

LongRow(year, gender, age, metric, value) ==
    [region |-> "r", gender |-> gender, age |-> age, year |-> year,
     metric |-> metric, value |-> value]

AggRows ==
    {LongRow(2015, "gye", "hapgye", "ilban", 5),
     LongRow(2015, "gye", "20~24", "ilban", 2),
     LongRow(2015, "gye", NA, "ilban", 1),
     LongRow(2015, "namja", "hapgye", "ilban", 3),
     LongRow(2015, "namja", "20~24", "ilban", 1),
     LongRow(2015, "namja", "15~64", "ilban", 2),
     LongRow(2015, "namja", NA, "ilban", 1),
     LongRow(2015, "yeoja", "hapgye", "ilban", 2),
     LongRow(2016, "namja", "hapgye", "ilban", 4),
     LongRow(2016, "gye", "20~24", "ilban", 3),
     LongRow(2014, "namja", "hapgye", "ilban", 7),
     LongRow(2015, "namja", "hapgye", "chong", 9)}

InitAgg ==
    /\ df_raw = [columns |-> <<>>, body |-> <<>>]
    /\ long_df \in SeqsUpTo(AggRows, MaxLongRows)
    /\ gender_year = <<>>
    /\ age_totals = <<>>
    /\ gender_age = <<>>
    /\ age_order = <<>>
    /\ files = <<>>
    /\ report_text = [kind |-> "none"]
    /\ pc = "aggregate"
    /\ raised = FALSE
    /\ MIdle

SpecAgg == InitAgg /\ [][aggregate_general_households]_vars

Aggregated == pc = "save_year_gender" /\ ~raised

\* ---- what the long form holds, read off long_df directly
\* the rows the aggregates are computed over: the indicator, from 2015 on
InScope(r) == r.metric = "ilban" /\ r.year >= 2015

\* the rows that count for the year x gender table
CountsForGenderYear(r) ==
    InScope(r) /\ r.gender \in {"namja", "yeoja"} /\ r.age = "hapgye"

\* the place of the first total-gender row in scope with this bucket, 0 if none
FirstSeen(label) ==
    LET at == {i \in 1..Len(long_df) :
                  /\ InScope(long_df[i])
                  /\ long_df[i].gender = "gye"
                  /\ long_df[i].age = label}
    IN  IF at = {} THEN 0 ELSE CHOOSE i \in at : \A k \in at : i <= k

\* C7: the year x gender table has exactly one row for each (year, gender)
\* pair among the long-form rows with the indicator metric, year >= 2015, a
\* named gender and the grand-total bucket; the row's value is the sum of
\* exactly those rows' values; the rows are sorted by (year, gender).
C7_GenderYearTable ==
    Aggregated =>
        LET pairs == {<<long_df[i].year, long_df[i].gender>> :
                         i \in {k \in 1..Len(long_df) : CountsForGenderYear(long_df[k])}}
        IN  /\ {<<r.year, r.gender>> : r \in Range(gender_year)} = pairs
            /\ Len(gender_year) = Cardinality(pairs)
            /\ \A i \in 1..Len(gender_year) :
                  gender_year[i].value =
                      SumWhere(long_df, LAMBDA r :
                          /\ CountsForGenderYear(r)
                          /\ r.year = gender_year[i].year
                          /\ r.gender = gender_year[i].gender)
            /\ \A i, j \in 1..Len(gender_year) :
                  i < j => \/ gender_year[i].year < gender_year[j].year
                           \/ /\ gender_year[i].year = gender_year[j].year
                              /\ gender_year[i].gender = "namja"
                              /\ gender_year[j].gender = "yeoja"

\* three rows in year and gender order out of an unsorted long form that
\* also holds a row of an earlier year or of another metric
C7_Witness ==
    /\ Aggregated
    /\ Len(gender_year) = 3
    /\ long_df[1].year = 2016
    /\ \E i \in 1..Len(long_df) : ~InScope(long_df[i])

\* C4: within every year of the year x age table and within every (year,
\* gender) group of the year x gender x age table, the buckets stand in the
\* order in which they first occur in the total-gender rows, and the rows of
\* the buckets that occur in no total-gender row (their label is missing)
\* stand after all of them.
C4_BucketOrder ==
    Aggregated =>
        /\ \A i, j \in 1..Len(age_totals) :
              (i < j /\ age_totals[i].year = age_totals[j].year) =>
                  /\ FirstSeen(age_totals[i].age) > 0
                  /\ FirstSeen(age_totals[i].age) < FirstSeen(age_totals[j].age)
        /\ \A i, j \in 1..Len(gender_age) :
              (/\ i < j
               /\ gender_age[i].year = gender_age[j].year
               /\ gender_age[i].gender = gender_age[j].gender) =>
                  \/ gender_age[j].age = NA
                  \/ /\ gender_age[i].age # NA
                     /\ FirstSeen(gender_age[i].age) > 0
                     /\ FirstSeen(gender_age[i].age) < FirstSeen(gender_age[j].age)

\* the total-gender rows show the grand total before 20~24 (the reverse of
\* the string order), and one group of the gender x age table holds both
\* buckets and a bucket of no total-gender row
C4_Witness ==
    /\ Aggregated
    /\ age_order = <<"hapgye", "20~24">>
    /\ Len(age_totals) = 2
    /\ age_totals[1].year = age_totals[2].year
    /\ \E i \in 1..Len(gender_age) :
          /\ i + 1 <= Len(gender_age)
          /\ gender_age[i].age = "hapgye"
          /\ gender_age[i + 1].age = "20~24"
          /\ gender_age[i + 1].gender = gender_age[i].gender
          /\ gender_age[i + 1].year = gender_age[i].year

\* the (year, gender, bucket) groups of the named genders in scope
BucketGroups ==
    {<<long_df[i].year, long_df[i].gender, long_df[i].age>> :
        i \in {k \in 1..Len(long_df) :
                  /\ InScope(long_df[k])
                  /\ long_df[k].gender \in {"namja", "yeoja"}
                  /\ long_df[k].age # NA}}

GroupSum(g) ==
    SumWhere(long_df, LAMBDA r :
        InScope(r) /\ r.year = g[1] /\ r.gender = g[2] /\ r.age = g[3])

\* C10: every (year, gender, bucket) group has its row in the year x gender
\* x age table, with the group's sum: under its own label when the bucket
\* occurs in a total-gender row, under the missing label when it occurs in
\* none; the table has no other row; and every row of the year x age table
\* carries a label of the established order.
C10_NoGroupRemoved ==
    Aggregated =>
        /\ Len(gender_age) = Cardinality(BucketGroups)
        /\ \A g \in BucketGroups :
              \E i \in 1..Len(gender_age) :
                  /\ gender_age[i].year = g[1]
                  /\ gender_age[i].gender = g[2]
                  /\ gender_age[i].value = GroupSum(g)
                  /\ gender_age[i].age = IF FirstSeen(g[3]) > 0 THEN g[3] ELSE NA
        /\ \A i \in 1..Len(age_totals) :
              /\ age_totals[i].age # NA
              /\ FirstSeen(age_totals[i].age) > 0

\* a group whose bucket occurs in no total-gender row, kept under the
\* missing label beside a group kept under its own label
C10_Witness ==
    /\ Aggregated
    /\ age_totals # <<>>
    /\ \E i, j \in 1..Len(gender_age) :
          /\ gender_age[i].age = NA
          /\ gender_age[j].age # NA
          /\ gender_age[i].year = gender_age[j].year
          /\ gender_age[i].gender = gender_age[j].gender
    /\ \E g \in BucketGroups : FirstSeen(g[3]) = 0


(***************************************************************************)
(* save_csv (lines 104-105), called three times by main (lines 207-209).   *)
(* Writing a file either completes or raises (OSError), which ends the run.*)
(***************************************************************************)
save_csv(step, path) ==
    /\ pc = step
    /\ ~raised
    /\ \E completes \in BOOLEAN :
          IF completes
          THEN files' = Append(files, path) /\ pc' = MainNext(pc) /\ UNCHANGED raised
          ELSE raised' = TRUE /\ UNCHANGED <<files, pc>>
    /\ UNCHANGED <<df_raw, long_df, tables, report_text, mvars>>

save_year_gender == save_csv("save_year_gender", OUTPUT_YEAR_GENDER_CSV)
save_age == save_csv("save_age", OUTPUT_AGE_CSV)
save_gender_age == save_csv("save_gender_age", OUTPUT_GENDER_AGE_CSV)

(***************************************************************************)
(* plot_gender_age (lines 108-143).                                        *)
(***************************************************************************)
MaxYear(rows) ==
    CHOOSE y \in {r.year : r \in Range(rows)} : \A r \in Range(rows) : r.year <= y

\* lines 119-124: the latest year's rows outside the summary buckets; a
\* missing label is in no list, so isin is false for it and the row stays
LatestDf(ga) ==
    SelectSeq(ga, LAMBDA r : r.age \notin ExcludedGroups /\ r.year = MaxYear(ga))

\* line 134: pivot raises ValueError when two rows share (bucket, gender),
\* which two rows with the missing label do
PivotRaises(latest) ==
    \E i, j \in 1..Len(latest) :
        i # j /\ latest[i].age = latest[j].age /\ latest[i].gender = latest[j].gender

\* the mutant has neither early return
MutPlotOutcomes(ga) ==
    IF ga # <<>> /\ PivotRaises(LatestDf(ga)) THEN {"raised"} ELSE {"written", "raised"}

\* what a call can do: return at once (lines 109-110, 126-127), write the
\* figure (line 142), or raise: pivot on repeated entries, the plot of a
\* frame that reindex left empty, savefig on an I/O error
PlotOutcomes(ga) ==
    IF ga = <<>> THEN {"returned"}
    ELSE IF LatestDf(ga) = <<>> THEN {"returned"}
    ELSE IF PivotRaises(LatestDf(ga)) THEN {"raised"}
    ELSE {"written", "raised"}

plot_gender_age ==
    /\ pc = "plot"
    /\ ~raised
    /\ \E outcome \in PlotOutcomes(gender_age) :
          /\ files' = IF outcome = "written" THEN Append(files, OUTPUT_FIGURE) ELSE files
          /\ raised' = (outcome = "raised")
          /\ pc' = IF outcome = "raised" THEN pc ELSE MainNext(pc)
    /\ UNCHANGED <<df_raw, long_df, tables, report_text, mvars>>

(***************************************************************************)
(* build_report (lines 146-200).                                           *)
(***************************************************************************)
\* lines 153-157 and .get(gender, 0) of line 193: the latest year's value of
\* the gender (to_dict keeps the last of repeated keys), 0 without one
LatestGender(gy, gender) ==
    LET at == {i \in 1..Len(gy) : gy[i].year = MaxYear(gy) /\ gy[i].gender = gender}
    IN  IF at = {} THEN 0 ELSE gy[CHOOSE i \in at : \A k \in at : k <= i].value

\* line 159
LatestAgeTotal(gy, at) == SelectSeq(at, LAMBDA r : r.year = MaxYear(gy))

\* lines 160-162
MainGroups(gy, at) ==
    SelectSeq(LatestAgeTotal(gy, at), LAMBDA r : r.age \notin ExcludedGroups)

\* lines 164-165: .loc[bucket == label, value]
BucketValues(gy, at, label) ==
    SelectSeq(LatestAgeTotal(gy, at), LAMBDA r : r.age = label)

\* lines 171-188: the latest year's rows of a gender, summary buckets excluded
GenderGroups(gy, ga, gender) ==
    SelectSeq(ga, LAMBDA r :
        r.year = MaxYear(gy) /\ r.gender = gender /\ r.age \notin ExcludedGroups)

\* .sort_values(value).iloc[0]: a row of the greatest (least) value; which
\* one of several is the sort's choice
TopRows(rows) == {r \in Range(rows) : \A q \in Range(rows) : q.value <= r.value}
BottomRows(rows) == {r \in Range(rows) : \A q \in Range(rows) : r.value <= q.value}

\* .iloc[0] of an empty selection raises IndexError: lines 164, 165, 168-169,
\* 178, 187
ReportRaises(gy, at, ga) ==
    \/ BucketValues(gy, at, GrandTotal) = <<>>
    \/ BucketValues(gy, at, SeniorBucket) = <<>>
    \/ MainGroups(gy, at) = <<>>
    \/ GenderGroups(gy, ga, "namja") = <<>>
    \/ GenderGroups(gy, ga, "yeoja") = <<>>

\* lines 190-200: the values the template is filled with
Reports(gy, at, ga) ==
    {[kind |-> "report",
      latest_year |-> MaxYear(gy),
      total_households |-> BucketValues(gy, at, GrandTotal)[1].value,
      namja |-> LatestGender(gy, "namja"),
      yeoja |-> LatestGender(gy, "yeoja"),
      top_age_row |-> top,
      bottom_age_row |-> bottom,
      male_top_age |-> male,
      female_top_age |-> female,
      senior_households |-> BucketValues(gy, at, SeniorBucket)[1].value,
      senior_ratio |-> <<BucketValues(gy, at, SeniorBucket)[1].value * 100,
                         BucketValues(gy, at, GrandTotal)[1].value>>] :
        top \in TopRows(MainGroups(gy, at)),
        bottom \in BottomRows(MainGroups(gy, at)),
        male \in TopRows(GenderGroups(gy, ga, "namja")),
        female \in TopRows(GenderGroups(gy, ga, "yeoja"))}

\* the mutant returns the apology only when all three tables are empty
MutReportOutcomes(gy, at, ga) ==
    IF gy = <<>> /\ at = <<>> /\ ga = <<>> THEN {[kind |-> Apology]}
    ELSE IF gy = <<>> \/ ReportRaises(gy, at, ga) THEN {[kind |-> "raised"]}
    ELSE Reports(gy, at, ga)

\* what a call can return; [kind |-> "raised"] stands for the IndexError
ReportOutcomes(gy, at, ga) ==
    IF gy = <<>> \/ at = <<>> \/ ga = <<>> THEN {[kind |-> Apology]}
    ELSE IF ReportRaises(gy, at, ga) THEN {[kind |-> "raised"]}
    ELSE Reports(gy, at, ga)

\* line 213
build_report ==
    /\ pc = "build_report"
    /\ ~raised
    /\ \E outcome \in ReportOutcomes(gender_year, age_totals, gender_age) :
          IF outcome.kind = "raised"
          THEN raised' = TRUE /\ UNCHANGED <<report_text, pc>>
          ELSE report_text' = outcome /\ pc' = MainNext(pc) /\ UNCHANGED raised
    /\ UNCHANGED <<df_raw, long_df, tables, files, mvars>>

\* line 214: OUTPUT_REPORT.write_text(report_text)
write_report ==
    /\ pc = "write_report"
    /\ ~raised
    /\ \E completes \in BOOLEAN :
          IF completes
          THEN files' = Append(files, OUTPUT_REPORT) /\ pc' = MainNext(pc) /\ UNCHANGED raised
          ELSE raised' = TRUE /\ UNCHANGED <<files, pc>>
    /\ UNCHANGED <<df_raw, long_df, tables, report_text, mvars>>

\* lines 216-229: the console summary
print_summary ==
    /\ pc = "print"
    /\ ~raised
    /\ pc' = MainNext(pc)
    /\ UNCHANGED <<df_raw, long_df, tables, files, report_text, raised, mvars>>

\* ---- the tables of the reporter's checks
MaxTableRows == 2

GenderYearRows ==
    {[year |-> 2015, gender |-> "namja", value |-> 5],
     [year |-> 2015, gender |-> "yeoja", value |-> 6],
     [year |-> 2016, gender |-> "yeoja", value |-> 7]}

AgeTotalRows ==
    <<[year |-> 2015, age |-> "hapgye", value |-> 11],
      [year |-> 2015, age |-> "20~24", value |-> 4],
      [year |-> 2015, age |-> "65+", value |-> 3],
      [year |-> 2016, age |-> "hapgye", value |-> 12],
      [year |-> 2016, age |-> "20~24", value |-> 4],
      [year |-> 2016, age |-> "65+", value |-> 3]>>

GenderAgeRows ==
    {[year |-> 2015, gender |-> "namja", age |-> "hapgye", value |-> 5],
     [year |-> 2015, gender |-> "namja", age |-> "20~24", value |-> 2],
     [year |-> 2015, gender |-> "yeoja", age |-> "20~24", value |-> 2],
     [year |-> 2016, gender |-> "yeoja", age |-> "20~24", value |-> 3]}

\* the rows of s at the places in keep, in their order
SubTable(s, keep) == SelectSeqBy(s, [i \in 1..Len(s) |-> i \in keep])

InitReport ==
    /\ df_raw = [columns |-> <<>>, body |-> <<>>]
    /\ long_df = <<>>
    /\ gender_year \in SeqsUpTo(GenderYearRows, MaxTableRows)
    /\ age_totals \in {SubTable(AgeTotalRows, keep) : keep \in SUBSET (1..Len(AgeTotalRows))}
    /\ gender_age \in SeqsUpTo(GenderAgeRows, MaxTableRows)
    /\ age_order = <<"hapgye", "20~24", "65+">>
    /\ files = <<>>
    /\ report_text = [kind |-> "none"]
    /\ pc = "build_report"
    /\ raised = FALSE
    /\ MIdle

SpecReport == InitReport /\ [][build_report]_vars

\* build_report has been called: it raised or it returned
ReportCalled == (pc = "build_report" /\ raised) \/ (pc = "write_report" /\ ~raised)

\* C2: called with at least one of the three tables empty, build_report
\* returns exactly the fixed apology string and raises nothing, whatever
\* the other two tables hold.
C2_EmptyGuard ==
    (ReportCalled /\ (gender_year = <<>> \/ age_totals = <<>> \/ gender_age = <<>>)) =>
        ~raised /\ report_text.kind = "apology"

\* the call returned with only the year x age table empty
C2_Witness ==
    /\ pc = "write_report"
    /\ age_totals = <<>>
    /\ Len(gender_year) = 2
    /\ Len(gender_age) = 2

\* the named genders without a row of the latest year in the year x gender table
AbsentGenders ==
    {g \in {"namja", "yeoja"} :
        \A i \in 1..Len(gender_year) :
            ~(gender_year[i].year = MaxYear(gender_year) /\ gender_year[i].gender = g)}

\* the latest year's year x age rows hold the grand total, the senior bucket
\* and an ordinary bucket
AgeRowsPresent ==
    \A wanted \in {{"hapgye"}, {"65+"}, {"20~24", "25~29", NA}} :
        \E i \in 1..Len(age_totals) :
            age_totals[i].year = MaxYear(gender_year) /\ age_totals[i].age \in wanted

\* C3: called with three non-empty tables of which the latest year has no
\* row for a named gender (and has the age rows the report needs),
\* build_report returns the formatted report and reports that gender's
\* total as 0.
C3_AbsentGenderDefault ==
    (/\ ReportCalled
     /\ gender_year # <<>> /\ age_totals # <<>> /\ gender_age # <<>>
     /\ AgeRowsPresent
     /\ AbsentGenders # {}) =>
        /\ ~raised
        /\ report_text.kind = "report"
        /\ "namja" \in AbsentGenders => report_text.namja = 0
        /\ "yeoja" \in AbsentGenders => report_text.yeoja = 0


(***************************************************************************)
(* main (lines 203-229): one run of pipeline B.                            *)
(***************************************************************************)
\* the data rows a source file is made of: any of these, in this order
MainRows ==
    <<[region |-> "r", gender |-> "gye", age |-> "hapgye", cells |-> <<"9", "9">>],
      [region |-> "r", gender |-> "gye", age |-> "65+", cells |-> <<"2", "3">>],
      [region |-> "r", gender |-> "gye", age |-> "20~24", cells |-> <<"4", "X">>],
      [region |-> "r", gender |-> "namja", age |-> "hapgye", cells |-> <<"4", "4">>],
      [region |-> "r", gender |-> "namja", age |-> "20~24", cells |-> <<"2", "1">>],
      [region |-> "r", gender |-> "yeoja", age |-> "hapgye", cells |-> <<"5", "-">>],
      [region |-> "r", gender |-> "yeoja", age |-> "20~24", cells |-> <<"2", "abc">>],
      [region |-> "r", gender |-> "namja", age |-> "25~29", cells |-> <<"1", "1">>],
      [region |-> "r", gender |-> "namja", age |-> "15~64", cells |-> <<"3", "3">>],
      [region |-> "r", gender |-> "gye", age |-> "-", cells |-> <<"1", "1">>]>>

MainColumns ==
    {<<>>, <<<<"2015">>>>, <<<<"2014">>>>, <<<<"Unnamed: 3">>>>,
     <<<<"2015">>, <<"2016">>>>, <<<<"2015">>, <<"2015", "1">>>>}

MainTables ==
    {[columns |-> c, body |-> b] :
        c \in MainColumns,
        b \in {<<>>} \cup
              {<<WideRow(<<"ilban", "ilban">>)>> \o SubTable(MainRows, keep) :
                  keep \in SUBSET (1..Len(MainRows))}}

Init ==
    /\ df_raw \in {CutToColumns(t) : t \in MainTables}
    /\ long_df = <<>>
    /\ gender_year = <<>>
    /\ age_totals = <<>>
    /\ gender_age = <<>>
    /\ age_order = <<>>
    /\ files = <<>>              \* what this run has written
    /\ report_text = [kind |-> "none"]
    /\ pc = "load"
    /\ raised = FALSE
    /\ MIdle

Next ==
    \/ load_long_form_dataframe
    \/ aggregate_general_households
    \/ save_year_gender
    \/ save_age
    \/ save_gender_age
    \/ plot_gender_age
    \/ build_report
    \/ write_report
    \/ print_summary

Spec == Init /\ [][Next]_vars

\* the place of a statement in the order the spec gives for main
StepNo(step) ==
    CASE step = "load" -> 1
      [] step = "aggregate" -> 2
      [] step = "save_year_gender" -> 3
      [] step = "save_age" -> 4
      [] step = "save_gender_age" -> 5
      [] step = "plot" -> 6
      [] step = "build_report" -> 7
      [] step = "write_report" -> 8
      [] step = "print" -> 9
      [] step = "done" -> 10

Written(path) == path \in Range(files)

\* C8: plot_gender_age called with an empty gender x age table returns
\* without writing the figure and without raising; in a run of main the
\* figure is written only if the gender x age aggregate is not empty.
C8_PlotGuard ==
    /\ Written("gender_age_line.png") => gender_age # <<>>
    /\ (gender_age = <<>> /\ pc = "plot") => ~raised
    /\ (gender_age = <<>> /\ StepNo(pc) > 6) => ~Written("gender_age_line.png")

\* the plot step is over for an empty aggregate: the three CSVs are there,
\* the figure is not, and the run goes on
C8_Witness ==
    /\ pc = "build_report"
    /\ ~raised
    /\ gender_age = <<>>
    /\ age_totals # <<>>
    /\ Len(files) = 3

\* the files present after the statements before pc completed: the three
\* CSVs in their order, the figure if the plot wrote one, the report
C9_FilesInOrder ==
    LET csvs == <<"general_households_by_gender_year.csv",
                  "general_households_by_age.csv",
                  "general_households_by_gender_age.csv">>
        saved == SubSeq(csvs, 1, IF StepNo(pc) <= 3 THEN 0
                                 ELSE IF StepNo(pc) >= 6 THEN 3
                                 ELSE StepNo(pc) - 3)
        report == IF StepNo(pc) > 8
                  THEN <<"general_household_trend_report.txt">> ELSE <<>>
    IN  \/ files = saved \o report
        \/ /\ StepNo(pc) > 6
           /\ files = saved \o <<"gender_age_line.png">> \o report

\* a step of a run: the statement at pc raises and the run is over, or it
\* completes and the next statement of the order is at pc
C9_OneStep ==
    /\ ~raised
    /\ \/ raised' /\ pc' = pc
       \/ ~raised' /\ StepNo(pc') = StepNo(pc) + 1

\* C9: in every run of main the statements run in the order load,
\* aggregate, save the three CSVs, plot, build and write the report, each
\* once and after the previous one completed; so the report is written only
\* after the three CSVs, and when a statement raises, the files of the
\* earlier statements are written and those of the later ones are not.
C9_LinearRun == [](C9_FilesInOrder) /\ [][C9_OneStep]_vars

\* a run that wrote everything, and the state it ends in
C9_Witness ==
    /\ pc = "done"
    /\ Len(files) = 5
    /\ report_text.kind = "report"

=============================================================================
